---- MODULE Spec2Model ----
(***************************************************************************)
(* Fragment storage and versioning of the fragments microservice:          *)
(* the Fragment entity (model/fragment.js), FragmentVersion ids            *)
(* (model/fragment-version.js), the in-memory storage adapters             *)
(* (model/data/memory/index.js, model/data/memory/versions.js) and the     *)
(* POST / PUT / DELETE / restore route handlers that drive them; the       *)
(* constructor's validation, formats and canConvert, the converter         *)
(* (utils/converter.js) and the GET route that calls it.                   *)
(*                                                                         *)
(* Media types are sequences of their tokens ("text", "/", "plain").       *)
(* Strings that the code takes apart (fragment ids, version ids) are       *)
(* sequences of one-character strings; byte buffers are sequences of       *)
(* small integers; timestamps are readings of the integer clock `now`.     *)
(***************************************************************************)
EXTENDS Integers, Sequences, FiniteSets, TLC

\* ---------------------------------------------------------------- bounds
MaxLen == 1          \* longest byte buffer a caller supplies
MaxClock == 1        \* last reading of the clock
MaxVersionNum == 2   \* createVersion is not attempted past this number
MaxOps == 4          \* storage-writing operations in one behaviour
MaxIdLen == 3        \* longest fragment id tried on the id round trip
MaxCalls == 3        \* handlers started in one behaviour of interleaved calls
MaxN == 11           \* largest version number tried on the id round trip

\* ------------------------------------------------------------ input sets
Owners == {"A", "B"}
IdA == <<"a">>
IdAvb == <<"a", "_", "v", "b">>
FragIds == {IdA, IdAvb}
\* the (owner, id) pairs the behaviours use: under Spec one owner with an id
\* that extends the other by "_v"; under SpecOwners two owners with the same id
Slots == {<<"A", IdA>>, <<"A", IdAvb>>}
OwnerSlots == {<<"A", IdA>>, <<"B", IdA>>}
UuidIds == {IdA}
Byte == {0, 1}
Buffers == UNION {[1..n -> Byte] : n \in 0..MaxLen}
IdAlphabet == {"a", "_", "v", "1"}

VARIABLES metadata, data, versionMetadata, versionData, last, now, ops, probe

vars == <<metadata, data, versionMetadata, versionData, last, now, ops, probe>>

\* ----------------------------------------------------- string primitives
Digits == <<"0", "1", "2", "3", "4", "5", "6", "7", "8", "9">>

IsDigit(c) == \E d \in 1..10 : Digits[d] = c

DigitVal(c) == (CHOOSE d \in 1..10 : Digits[d] = c) - 1

\* `${n}` for a non-negative integer n
RECURSIVE NumToString(_)
NumToString(n) ==
  IF n < 10 THEN <<Digits[n + 1]>>
  ELSE NumToString(n \div 10) \o <<Digits[(n % 10) + 1]>>

StartsWith(s, p) == Len(s) >= Len(p) /\ SubSeq(s, 1, Len(p)) = p

\* String.prototype.indexOf, 1-based, 0 when absent
IndexOf(s, sep) ==
  LET hits == {i \in 1..Len(s) : i + Len(sep) - 1 <= Len(s)
                                 /\ SubSeq(s, i, i + Len(sep) - 1) = sep}
  IN IF hits = {} THEN 0 ELSE CHOOSE i \in hits : \A j \in hits : i <= j

\* String.prototype.split with a non-empty separator
RECURSIVE Split(_, _)
Split(s, sep) ==
  LET i == IndexOf(s, sep)
  IN IF i = 0 THEN <<s>>
     ELSE <<SubSeq(s, 1, i - 1)>> \o Split(SubSeq(s, i + Len(sep), Len(s)), sep)

RECURSIVE LeadingDigits(_)
LeadingDigits(s) ==
  IF s = <<>> \/ ~IsDigit(Head(s)) THEN 0 ELSE 1 + LeadingDigits(Tail(s))

RECURSIVE DigitsValue(_, _)
DigitsValue(s, acc) ==
  IF s = <<>> THEN acc ELSE DigitsValue(Tail(s), acc * 10 + DigitVal(Head(s)))

\* parseInt(s, 10): optional sign, then the longest run of digits; NaN if none
ParseInt(s) ==
  LET signed == s # <<>> /\ Head(s) \in {"-", "+"}
      body == IF signed THEN Tail(s) ELSE s
      k == LeadingDigits(body)
      v == DigitsValue(SubSeq(body, 1, k), 0)
  IN IF k = 0 THEN [isNaN |-> TRUE, val |-> 0]
     ELSE [isNaN |-> FALSE, val |-> IF signed /\ Head(s) = "-" THEN 0 - v ELSE v]

\* ------------------------------------------------------- FragmentVersion
Sep == <<"_", "v">>

toVersionId(fragmentId, versionNum) == fragmentId \o Sep \o NumToString(versionNum)

\* slip: splitting on "_" alone
parseVersionId_SplitUnderscore(versionId) ==
  LET parts == Split(versionId, <<"_">>)
  IN IF Len(parts) # 2
     THEN [ok |-> FALSE, error |-> "Invalid version ID format",
           fragmentId |-> <<>>, versionNum |-> 0]
     ELSE LET n == ParseInt(parts[2])
          IN IF n.isNaN
             THEN [ok |-> FALSE, error |-> "Invalid version number in version ID",
                   fragmentId |-> <<>>, versionNum |-> 0]
             ELSE [ok |-> TRUE, error |-> "",
                   fragmentId |-> parts[1], versionNum |-> n.val]

parseVersionId(versionId) ==
  LET parts == Split(versionId, Sep)
  IN IF Len(parts) # 2
     THEN [ok |-> FALSE, error |-> "Invalid version ID format",
           fragmentId |-> <<>>, versionNum |-> 0]
     ELSE LET n == ParseInt(parts[2])
          IN IF n.isNaN
             THEN [ok |-> FALSE, error |-> "Invalid version number in version ID",
                   fragmentId |-> <<>>, versionNum |-> 0]
             ELSE [ok |-> TRUE, error |-> "",
                   fragmentId |-> parts[1], versionNum |-> n.val]

\* ---------------------------------------------------------- media types
\* A media type string is the sequence of its tokens: 'text/plain; charset=utf-8'
\* is <<"text", "/", "plain", ";", " ", "charset=utf-8">>. The empty sequence is
\* the empty string, and stands for undefined where only truthiness is tested.
TextPlain == <<"text", "/", "plain">>
TextPlainCharset == <<"text", "/", "plain", ";", " ", "charset=utf-8">>
TextMarkdown == <<"text", "/", "markdown">>
TextMarkdownCharset == <<"text", "/", "markdown", ";", " ", "charset=utf-8">>
TextHtml == <<"text", "/", "html">>
TextCsv == <<"text", "/", "csv">>
ApplicationJson == <<"application", "/", "json">>
ApplicationJsonCharset == <<"application", "/", "json", ";", " ", "charset=utf-8">>
ApplicationYaml == <<"application", "/", "yaml">>
ApplicationYml == <<"application", "/", "yml">>
ImagePng == <<"image", "/", "png">>
ImageJpeg == <<"image", "/", "jpeg">>
ImageWebp == <<"image", "/", "webp">>
ImageAvif == <<"image", "/", "avif">>
ImageGif == <<"image", "/", "gif">>
ApplicationOctetStream == <<"application", "/", "octet-stream">>

\* the types the stateful specifications create fragments with
Types == {TextPlain, TextMarkdown}

\* String.prototype.trim
RECURSIVE TrimStart(_)
TrimStart(s) == IF s # <<>> /\ Head(s) = " " THEN TrimStart(Tail(s)) ELSE s

RECURSIVE TrimEnd(_)
TrimEnd(s) ==
  IF s # <<>> /\ s[Len(s)] = " " THEN TrimEnd(SubSeq(s, 1, Len(s) - 1)) ELSE s

Trim(s) == TrimEnd(TrimStart(s))

Includes(list, x) == \E i \in 1..Len(list) : list[i] = x

\* contentType.parse(value): the text before the first ';', trimmed, must be
\* token "/" token; anything else throws
contentTypeParse(value) ==
  LET type == Trim(Split(value, <<";">>)[1])
      word(t) == t \notin {"/", ";", " "}
  IN IF Len(type) = 3 /\ word(type[1]) /\ type[2] = "/" /\ word(type[3])
     THEN [ok |-> TRUE, type |-> type]
     ELSE [ok |-> FALSE, type |-> <<>>]

supportedTypes ==
  <<TextPlain, TextMarkdown, TextHtml, TextCsv,
    ApplicationJson, ApplicationYaml, ApplicationYml,
    ImagePng, ImageJpeg, ImageWebp, ImageAvif, ImageGif>>

\* Fragment.isSupportedType(value)
isSupportedType(value) ==
  LET parsed == contentTypeParse(value)
  IN IF ~parsed.ok THEN FALSE
     ELSE LET type == parsed.type
              baseType == Trim(Split(type, <<";">>)[1])
          IN \E i \in 1..Len(supportedTypes) :
               \/ baseType = supportedTypes[i]
               \/ baseType = TextPlain /\ StartsWith(type, TextPlain \o <<";">>)

\* get mimeType()
mimeType(type) == contentTypeParse(type).type

\* get formats(); 'text/plain' in the list is the one-token string "text/plain"
formats(type) ==
  LET baseMimeType == Trim(Split(mimeType(type), <<";">>)[1])
  IN IF baseMimeType = TextPlain THEN <<"text/plain">>
     ELSE IF baseMimeType = TextMarkdown THEN <<"md", "html", "txt">>
     ELSE IF baseMimeType = TextHtml THEN <<"html", "txt">>
     ELSE IF baseMimeType = TextCsv THEN <<"csv", "txt", "json">>
     ELSE IF baseMimeType = ApplicationJson THEN <<"json", "txt">>
     ELSE IF baseMimeType = ApplicationYaml \/ baseMimeType = ApplicationYml
     THEN <<"yaml", "yml", "json", "txt">>
     ELSE IF StartsWith(baseMimeType, <<"image", "/">>)
     THEN <<"png", "jpg", "jpeg", "webp", "gif", "avif">>
     ELSE LET parts == Split(baseMimeType, <<"/">>)
          IN IF Len(parts) >= 2 /\ parts[2] # <<>> THEN <<parts[2][1]>> ELSE <<>>

\* canConvert(extension)
canConvert(type, extension) ==
  IF StartsWith(type, TextPlain) THEN extension = "text/plain" \/ extension = "txt"
  ELSE IF type = TextMarkdown THEN Includes(<<"md", "html", "txt">>, extension)
  ELSE IF type = TextHtml THEN Includes(<<"html", "txt">>, extension)
  ELSE IF StartsWith(type, <<"image", "/">>)
  THEN Includes(<<"png", "jpg", "jpeg", "webp", "gif", "avif">>, extension)
  ELSE Includes(formats(type), extension)

\* ------------------------------------------------------------- converter
\* What the libraries answer for the buffer at hand: whether JSON.parse,
\* yaml.load and sharp accept it, and the bytes the library that is asked
\* (markdown-it, JSON.stringify, yaml.dump, sharp) produces.
Env(jsonOk, yamlOk, sharpOk, out) ==
  [jsonOk |-> jsonOk, yamlOk |-> yamlOk, sharpOk |-> sharpOk, out |-> out]

\* a converter's outcome: the returned buffer in ret, or the thrown error's
\* message as the parts a template literal joins; async marks a rejected
\* promise that was returned, as opposed to an exception thrown in the call
Returned(buf) == [ok |-> TRUE, error |-> <<>>, ret |-> <<buf>>, async |-> FALSE]

Thrown(message) == [ok |-> FALSE, error |-> message, ret |-> <<>>, async |-> FALSE]

Rejected(message) == [ok |-> FALSE, error |-> message, ret |-> <<>>, async |-> TRUE]

\* getMimeType(extension)
getMimeType(extension) ==
  IF extension = "txt" THEN TextPlain
  ELSE IF extension = "md" THEN TextMarkdown
  ELSE IF extension = "html" THEN TextHtml
  ELSE IF extension = "csv" THEN TextCsv
  ELSE IF extension = "json" THEN ApplicationJson
  ELSE IF extension \in {"yaml", "yml"} THEN ApplicationYaml
  ELSE IF extension = "png" THEN ImagePng
  ELSE IF extension \in {"jpg", "jpeg"} THEN ImageJpeg
  ELSE IF extension = "webp" THEN ImageWebp
  ELSE IF extension = "avif" THEN ImageAvif
  ELSE IF extension = "gif" THEN ImageGif
  ELSE ApplicationOctetStream

convertMarkdown(buf, targetExt, env) ==
  IF targetExt \in {"html", "txt"} THEN Returned(env.out) ELSE Returned(buf)

convertHtml(buf, targetExt, env) ==
  IF targetExt = "txt" THEN Returned(env.out) ELSE Returned(buf)

convertCsv(buf, targetExt, env) ==
  IF targetExt = "json" THEN Returned(env.out) ELSE Returned(buf)

convertJson(buf, targetExt, env) ==
  IF ~env.jsonOk THEN Thrown(<<"Unable to convert JSON data">>)
  ELSE IF targetExt \in {"txt", "yaml", "yml"} THEN Returned(env.out)
  ELSE Returned(buf)

convertYaml(buf, targetExt, env) ==
  IF ~env.yamlOk THEN Thrown(<<"Unable to convert YAML data">>)
  ELSE IF targetExt = "json" THEN Returned(env.out)
  ELSE Returned(buf)

\* async convertImage: every failure is a rejection of the promise it returns
convertImage(buf, sourceType, targetExt, env) ==
  IF ~env.sharpOk THEN Rejected(<<"Unable to convert image: ", "sharp error">>)
  ELSE IF targetExt \in {"png", "jpg", "jpeg", "webp", "gif", "avif"} THEN Returned(env.out)
  ELSE IF sourceType = <<"image", "/", targetExt>> THEN Returned(buf)
  ELSE Returned(env.out)

\* async convertData: the try block catches what its callees throw in the
\* call; a promise it returns without await settles outside the try block
convertData(buf, sourceType, targetExt, env) ==
  LET baseSourceType == Trim(Split(sourceType, <<";">>)[1])
      r == IF baseSourceType = TextMarkdown THEN convertMarkdown(buf, targetExt, env)
           ELSE IF baseSourceType = TextHtml THEN convertHtml(buf, targetExt, env)
           ELSE IF baseSourceType = TextCsv THEN convertCsv(buf, targetExt, env)
           ELSE IF baseSourceType = ApplicationJson THEN convertJson(buf, targetExt, env)
           ELSE IF baseSourceType \in {ApplicationYaml, ApplicationYml}
           THEN convertYaml(buf, targetExt, env)
           ELSE IF StartsWith(baseSourceType, <<"image", "/">>)
           THEN convertImage(buf, baseSourceType, targetExt, env)
           ELSE Returned(buf)
  IN IF ~r.ok /\ ~r.async THEN Rejected(<<"Conversion error: ">> \o r.error) ELSE r

\* -------------------------------------------------------------- MemoryDB
\* One MemoryDB is, per owner (primary key), the entries of that owner's
\* object in insertion order: a sequence of [key, val].
EmptyDb == [o \in Owners |-> <<>>]

DbHas(db, pk, sk) == \E i \in 1..Len(db[pk]) : db[pk][i].key = sk

DbGet(db, pk, sk) == db[pk][CHOOSE i \in 1..Len(db[pk]) : db[pk][i].key = sk].val

DbPut(db, pk, sk, value) ==
  IF DbHas(db, pk, sk)
  THEN [db EXCEPT ![pk] = [i \in 1..Len(@) |->
           IF @[i].key = sk THEN [key |-> sk, val |-> value] ELSE @[i]]]
  ELSE [db EXCEPT ![pk] = Append(@, [key |-> sk, val |-> value])]

DbDel(db, pk, sk) == [db EXCEPT ![pk] = SelectSeq(@, LAMBDA e : e.key # sk)]

DbKeys(db, pk) == [i \in 1..Len(db[pk]) |-> db[pk][i].key]

\* ------------------------------------------- memory adapter for fragments
\* JSON.stringify keeps the six own properties of a Fragment
Serialize(fragment) ==
  [id |-> fragment.id, ownerId |-> fragment.ownerId, created |-> fragment.created,
   updated |-> fragment.updated, type |-> fragment.type, size |-> fragment.size]

writeFragment(meta, fragment) ==
  DbPut(meta, fragment.ownerId, fragment.id, Serialize(fragment))

\* slip: an entry that exists is kept
writeFragmentData_Keep(dat, ownerId, id, buffer) ==
  IF DbHas(dat, ownerId, id) THEN dat ELSE DbPut(dat, ownerId, id, buffer)

writeFragmentData(dat, ownerId, id, buffer) == DbPut(dat, ownerId, id, buffer)

\* slip: the id is deleted in every owner's partition
deleteFragment_AllOwners(S, ownerId, id) ==
  [S EXCEPT !.metadata = [o \in Owners |-> SelectSeq(@[o], LAMBDA e : e.key # id)],
            !.data = [o \in Owners |-> SelectSeq(@[o], LAMBDA e : e.key # id)]]

deleteFragment(S, ownerId, id) ==
  [S EXCEPT !.metadata = DbDel(@, ownerId, id), !.data = DbDel(@, ownerId, id)]

\* -------------------------------------------- memory adapter for versions
writeFragmentVersion(vmeta, version) == DbPut(vmeta, version.ownerId, version.id, version)

writeFragmentVersionData(vdat, ownerId, versionId, buffer) ==
  DbPut(vdat, ownerId, versionId, buffer)

\* Array.prototype.sort((a, b) => b.versionNum - a.versionNum): stable, descending
InsertDesc(sorted, x) ==
  LET k == Cardinality({i \in 1..Len(sorted) : sorted[i].versionNum >= x.versionNum})
  IN SubSeq(sorted, 1, k) \o <<x>> \o SubSeq(sorted, k + 1, Len(sorted))

RECURSIVE SortDesc(_)
SortDesc(s) ==
  IF s = <<>> THEN <<>>
  ELSE InsertDesc(SortDesc(SubSeq(s, 1, Len(s) - 1)), s[Len(s)])

fragmentVersionIds(vmeta, ownerId, fragmentId) ==
  SelectSeq(DbKeys(vmeta, ownerId), LAMBDA versionId : StartsWith(versionId, fragmentId \o Sep))

listFragmentVersions(vmeta, ownerId, fragmentId, expand) ==
  LET ids == fragmentVersionIds(vmeta, ownerId, fragmentId)
  IN IF expand
     THEN SortDesc([i \in 1..Len(ids) |-> DbGet(vmeta, ownerId, ids[i])])
     ELSE ids

\* slip: the lookup always answers "no versions yet"
getLatestVersionNumber_Zero(vmeta, ownerId, fragmentId) == 0

getLatestVersionNumber(vmeta, ownerId, fragmentId) ==
  LET versions == listFragmentVersions(vmeta, ownerId, fragmentId, TRUE)
  IN IF Len(versions) = 0 THEN 0 ELSE SortDesc(versions)[1].versionNum

\* ------------------------------------------------------ Fragment entity
\* S is the four stores; a method returns the stores and the instance as it
\* leaves them, whether it returned (ok) or threw (error), and its result
\* wrapped in a sequence (<<>> for void, null and undefined).
Stores == [metadata |-> metadata, data |-> data,
           versionMetadata |-> versionMetadata, versionData |-> versionData]

Fragment(id, ownerId, created, updated, type, size) ==
  [id |-> id, ownerId |-> ownerId, created |-> created, updated |-> updated,
   type |-> type, size |-> size]

\* A JavaScript value given as size: undefined, a number, NaN or a string
Undefined == [kind |-> "undefined", val |-> 0]
NaN == [kind |-> "NaN", val |-> 0]
Num(n) == [kind |-> "number", val |-> n]
Str(n) == [kind |-> "string", val |-> n]

\* typeof v
typeof(v) == IF v.kind = "NaN" THEN "number" ELSE v.kind

\* v < 0 for v with typeof v = 'number': false for NaN
LessThanZero(v) == v.kind = "number" /\ v.val < 0

\* new Fragment({id, ownerId, created, updated, type, size = 0}) with its
\* validation; f is <<the instance>>, or <<>> when the constructor throws
newFragment(id, ownerId, created, updated, type, size) ==
  LET sz == IF size = Undefined THEN Num(0) ELSE size
      fail(e) == [ok |-> FALSE, error |-> e, f |-> <<>>]
  IN IF ownerId = "" THEN fail("ownerId is required")
     ELSE IF type = <<>> THEN fail("type is required")
     ELSE IF typeof(sz) # "number" THEN fail("size must be a number")
     ELSE IF LessThanZero(sz) THEN fail("size cannot be negative")
     ELSE IF ~isSupportedType(type) THEN fail("invalid type")
     ELSE [ok |-> TRUE, error |-> "",
           f |-> <<[id |-> id, ownerId |-> ownerId, created |-> created,
                    updated |-> updated, type |-> type, size |-> sz]>>]

Out(ok, error, S, f, ret) == [ok |-> ok, error |-> error, S |-> S, f |-> f, ret |-> ret]

\* readFragment(ownerId, id): the stored object, undefined (<<>>) when there
\* is none, or a rejection when the read fails
readFragment(meta, ownerId, id, fault) ==
  IF fault THEN [ok |-> FALSE, val |-> <<>>]
  ELSE IF DbHas(meta, ownerId, id) THEN [ok |-> TRUE, val |-> <<DbGet(meta, ownerId, id)>>]
  ELSE [ok |-> TRUE, val |-> <<>>]

\* slip: a failed read is thrown on to the caller
byIdFrom_Rethrow(read) ==
  IF ~read.ok THEN [ok |-> FALSE, error |-> "read failed", ret |-> <<>>]
  ELSE IF read.val = <<>> THEN [ok |-> TRUE, error |-> "", ret |-> <<>>]
  ELSE LET m == read.val[1]
           c == newFragment(m.id, m.ownerId, m.created, m.updated, m.type, Num(m.size))
       IN IF ~c.ok THEN [ok |-> TRUE, error |-> "", ret |-> <<>>]
          ELSE [ok |-> TRUE, error |-> "",
                ret |-> <<Fragment(m.id, m.ownerId, m.created, m.updated, m.type, m.size)>>]

\* The body of Fragment.byId on what readFragment answered: a rejected read,
\* new Fragment(undefined) and a constructor error are all caught and give null
byIdFrom(read) ==
  IF ~read.ok THEN [ok |-> TRUE, error |-> "", ret |-> <<>>]
  ELSE IF read.val = <<>> THEN [ok |-> TRUE, error |-> "", ret |-> <<>>]
  ELSE LET m == read.val[1]
           c == newFragment(m.id, m.ownerId, m.created, m.updated, m.type, Num(m.size))
       IN IF ~c.ok THEN [ok |-> TRUE, error |-> "", ret |-> <<>>]
          ELSE [ok |-> TRUE, error |-> "",
                ret |-> <<Fragment(m.id, m.ownerId, m.created, m.updated, m.type, m.size)>>]

\* Fragment.byId(ownerId, id) when the read itself does not fail
byId(S, ownerId, id) == byIdFrom(readFragment(S.metadata, ownerId, id, FALSE)).ret

\* slip: this.updated is not refreshed
save_Stale(S, f, t) ==
  Out(TRUE, "", [S EXCEPT !.metadata = writeFragment(@, f)], f, <<>>)

save(S, f, t) ==
  LET g == [f EXCEPT !.updated = t]
  IN Out(TRUE, "", [S EXCEPT !.metadata = writeFragment(@, g)], g, <<>>)

getData(S, f) ==
  IF DbHas(S.data, f.ownerId, f.id)
  THEN Out(TRUE, "", S, f, <<DbGet(S.data, f.ownerId, f.id)>>)
  ELSE Out(FALSE, "TypeError", S, f, <<>>)

\* slip: this.size is not recomputed
setData_NoSize(S, f, buf, t) ==
  LET S1 == [S EXCEPT !.data = writeFragmentData(@, f.ownerId, f.id, buf)]
      g == [f EXCEPT !.updated = t]
  IN save(S1, g, t)

setData(S, f, buf, t) ==
  LET S1 == [S EXCEPT !.data = writeFragmentData(@, f.ownerId, f.id, buf)]
      g == [f EXCEPT !.size = Len(buf), !.updated = t]
  IN save(S1, g, t)

createVersion(S, f, t) ==
  LET lastVersionNum == getLatestVersionNumber(S.versionMetadata, f.ownerId, f.id)
      newVersionNum == lastVersionNum + 1
      versionId == toVersionId(f.id, newVersionNum)
      version == [id |-> versionId, fragmentId |-> f.id, ownerId |-> f.ownerId,
                  created |-> t, updated |-> t, type |-> f.type, size |-> f.size,
                  versionNum |-> newVersionNum]
      d == getData(S, f)
  IN IF ~d.ok THEN Out(FALSE, d.error, S, f, <<>>)
     ELSE Out(TRUE, "",
              [S EXCEPT !.versionMetadata = writeFragmentVersion(@, version),
                        !.versionData = writeFragmentVersionData(@, f.ownerId, versionId, d.ret[1])],
              f, <<version>>)

getVersions(S, f, expand) ==
  Out(TRUE, "", S, f, <<listFragmentVersions(S.versionMetadata, f.ownerId, f.id, expand)>>)

\* slip: the id's fragment is not compared with this fragment's id
getVersion_AnyFragment(S, f, versionId) ==
  LET p == parseVersionId(versionId)
  IN IF ~p.ok THEN Out(TRUE, "", S, f, <<>>)
     ELSE IF ~DbHas(S.versionMetadata, f.ownerId, versionId) THEN Out(TRUE, "", S, f, <<>>)
     ELSE Out(TRUE, "", S, f,
              <<[metadata |-> DbGet(S.versionMetadata, f.ownerId, versionId),
                 data |-> IF DbHas(S.versionData, f.ownerId, versionId)
                          THEN <<DbGet(S.versionData, f.ownerId, versionId)>> ELSE <<>>]>>)

getVersion(S, f, versionId) ==
  LET p == parseVersionId(versionId)
  IN IF ~p.ok \/ p.fragmentId # f.id THEN Out(TRUE, "", S, f, <<>>)
     ELSE IF ~DbHas(S.versionMetadata, f.ownerId, versionId) THEN Out(TRUE, "", S, f, <<>>)
     ELSE Out(TRUE, "", S, f,
              <<[metadata |-> DbGet(S.versionMetadata, f.ownerId, versionId),
                 data |-> IF DbHas(S.versionData, f.ownerId, versionId)
                          THEN <<DbGet(S.versionData, f.ownerId, versionId)>> ELSE <<>>]>>)

\* slip: the fragment's own content is read instead of the version's
restoreVersion_CurrentData(S, f, versionId, t) ==
  LET p == parseVersionId(versionId)
  IN IF ~p.ok \/ p.fragmentId # f.id
     THEN Out(FALSE, "Invalid version ID format", S, f, <<>>)
     ELSE IF ~DbHas(S.versionData, f.ownerId, versionId)
     THEN Out(FALSE, "Version data not found", S, f, <<>>)
     ELSE LET r == setData(S, f, DbGet(S.data, f.ownerId, f.id), t)
          IN Out(TRUE, "", r.S, r.f, <<TRUE>>)

\* slip: the overwritten state is snapshotted first
restoreVersion_Snapshot(S, f, versionId, t) ==
  LET p == parseVersionId(versionId)
  IN IF ~p.ok \/ p.fragmentId # f.id
     THEN Out(FALSE, "Invalid version ID format", S, f, <<>>)
     ELSE IF ~DbHas(S.versionData, f.ownerId, versionId)
     THEN Out(FALSE, "Version data not found", S, f, <<>>)
     ELSE LET c == createVersion(S, f, t)
              r == setData(c.S, f, DbGet(S.versionData, f.ownerId, versionId), t)
          IN Out(TRUE, "", r.S, r.f, <<TRUE>>)

\* slip: the id's fragment is not compared with this fragment's id
restoreVersion_AnyFragment(S, f, versionId, t) ==
  LET p == parseVersionId(versionId)
  IN IF ~p.ok
     THEN Out(FALSE, "Invalid version ID format", S, f, <<>>)
     ELSE IF ~DbHas(S.versionData, f.ownerId, versionId)
     THEN Out(FALSE, "Version data not found", S, f, <<>>)
     ELSE LET r == setData(S, f, DbGet(S.versionData, f.ownerId, versionId), t)
          IN Out(TRUE, "", r.S, r.f, <<TRUE>>)

restoreVersion(S, f, versionId, t) ==
  LET p == parseVersionId(versionId)
  IN IF ~p.ok \/ p.fragmentId # f.id
     THEN Out(FALSE, "Invalid version ID format", S, f, <<>>)
     ELSE IF ~DbHas(S.versionData, f.ownerId, versionId)
     THEN Out(FALSE, "Version data not found", S, f, <<>>)
     ELSE LET r == setData(S, f, DbGet(S.versionData, f.ownerId, versionId), t)
          IN Out(TRUE, "", r.S, r.f, <<TRUE>>)

\* Fragment.delete(ownerId, id)
delete(S, ownerId, id) == Out(TRUE, "", deleteFragment(S, ownerId, id), <<>>, <<>>)

\* --------------------------------------------------------------- routes
\* A route returns the method outcome it ends with (f is the handler's
\* Fragment instance, <<>> when it has none) and the HTTP status.
Resp(status, ok, error, S, f, ret) ==
  [status |-> status, ok |-> ok, error |-> error, S |-> S, f |-> f, ret |-> ret]

\* POST /fragments: the id is a fresh random UUID
post(S, ownerId, id, type, body, t) ==
  LET fragment == Fragment(id, ownerId, t, t, type, Len(body))
      r1 == save(S, fragment, t)
      r2 == setData(r1.S, r1.f, body, t)
  IN Resp(201, TRUE, "", r2.S, <<r2.f>>, <<r2.f>>)

\* slip: the Content-Type is not compared with the fragment's type
put_AnyType(S, ownerId, id, contentType, body, t) ==
  LET fragment == byId(S, ownerId, id)
  IN IF fragment = <<>> THEN Resp(404, FALSE, "Fragment not found", S, <<>>, <<>>)
     ELSE LET r == setData(S, fragment[1], body, t)
          IN Resp(200, TRUE, "", r.S, <<r.f>>, <<r.f>>)

\* PUT /fragments/:id
put(S, ownerId, id, contentType, body, t) ==
  LET fragment == byId(S, ownerId, id)
  IN IF fragment = <<>> THEN Resp(404, FALSE, "Fragment not found", S, <<>>, <<>>)
     ELSE IF fragment[1].type # contentType
     THEN Resp(400, FALSE, "Content-Type cannot be changed after fragment is created",
               S, fragment, <<>>)
     ELSE LET r == setData(S, fragment[1], body, t)
          IN Resp(200, TRUE, "", r.S, <<r.f>>, <<r.f>>)

\* DELETE /fragments/:id
deleteById(S, ownerId, id) ==
  LET fragment == byId(S, ownerId, id)
  IN IF fragment = <<>> THEN Resp(404, FALSE, "Fragment not found", S, <<>>, <<>>)
     ELSE Resp(200, TRUE, "", delete(S, ownerId, id).S, <<>>, <<>>)

\* POST /fragments/:id/versions
restoreVersionRoute(S, ownerId, id, versionId, t) ==
  LET fragment == byId(S, ownerId, id)
  IN IF fragment = <<>> THEN Resp(404, FALSE, "Fragment not found", S, <<>>, <<>>)
     ELSE LET r == restoreVersion(S, fragment[1], versionId, t)
          IN IF r.ok THEN Resp(200, TRUE, "", r.S, <<r.f>>, <<r.f>>)
             ELSE IF r.error = "Invalid version ID format"
             THEN Resp(400, FALSE, r.error, r.S, <<r.f>>, <<>>)
             ELSE Resp(404, FALSE, r.error, r.S, <<r.f>>, <<>>)

\* path.extname(id): from the last '.', unless that is the first character
ExtName(s) ==
  LET dots == {i \in 2..Len(s) : s[i] = "."}
  IN IF dots = {} THEN <<>>
     ELSE SubSeq(s, CHOOSE i \in dots : \A j \in dots : j <= i, Len(s))

\* id.replace(extension, ''): the first occurrence is removed
RemoveFirst(s, sub) ==
  LET i == IndexOf(s, sub)
  IN IF i = 0 THEN s ELSE SubSeq(s, 1, i - 1) \o SubSeq(s, i + Len(sub), Len(s))

\* what a GET answers: the body, the Content-Type header, the target format
\* it worked with and the (sourceType, targetExt) pairs it gave to convertData
Sent(body, contentType, targetFormat, calls) ==
  <<[body |-> body, contentType |-> contentType, targetFormat |-> targetFormat,
     convertData |-> calls]>>

\* GET /fragments/:id(.ext)
getById(S, ownerId, id, env) ==
  LET extension == ExtName(id)
      fragmentId == IF extension # <<>> THEN RemoveFirst(id, extension) ELSE id
      targetFormat == IF Len(extension) >= 2 THEN extension[2] ELSE ""
      fragment == byId(S, ownerId, fragmentId)
  IN IF fragment = <<>> THEN Resp(404, FALSE, "Fragment not found", S, <<>>, <<>>)
     ELSE
     LET f == fragment[1]
         d == getData(S, f)
         fmts == formats(f.type)
         call == <<[sourceType |-> f.type, targetExt |-> targetFormat]>>
         c == convertData(d.ret[1], f.type, targetFormat, env)
     IN IF ~d.ok THEN Resp(500, FALSE, d.error, S, fragment, <<>>)
        ELSE IF targetFormat = ""
        THEN Resp(200, TRUE, "", S, fragment, Sent(d.ret[1], f.type, targetFormat, <<>>))
        ELSE IF StartsWith(f.type, TextPlain) /\ targetFormat = "txt"
        THEN Resp(200, TRUE, "", S, fragment, Sent(d.ret[1], TextPlain, targetFormat, <<>>))
        ELSE IF StartsWith(f.type, ApplicationJson) /\ targetFormat \in {"yaml", "yml"}
        THEN IF c.ok
             THEN Resp(200, TRUE, "", S, fragment,
                       Sent(c.ret[1], getMimeType(targetFormat), targetFormat, call))
             ELSE Resp(500, FALSE, "Error converting fragment", S, fragment,
                       Sent(<<>>, <<>>, targetFormat, call))
        ELSE IF ~Includes(fmts, targetFormat)
        THEN Resp(415, FALSE, "Cannot convert fragment", S, fragment,
                  Sent(<<>>, <<>>, targetFormat, <<>>))
        ELSE IF f.type = TextMarkdown /\ targetFormat = "html"
        THEN Resp(200, TRUE, "", S, fragment, Sent(env.out, TextHtml, targetFormat, <<>>))
        ELSE IF c.ok
        THEN Resp(200, TRUE, "", S, fragment,
                  Sent(c.ret[1], getMimeType(targetFormat), targetFormat, call))
        ELSE Resp(500, FALSE, "Error converting fragment", S, fragment,
                  Sent(<<>>, <<>>, targetFormat, call))

\* ------------------------------------------------------------ behaviours
VersionIdInputs == {toVersionId(f, n) : f \in FragIds, n \in 1..MaxVersionNum} \cup FragIds

\* randomUUID() returns an id that names nothing in the stores
Mentions(db, id) ==
  \E o \in Owners : \E i \in 1..Len(db[o]) : db[o][i].key = id \/ StartsWith(db[o][i].key, id \o Sep)

Fresh(id) ==
  ~(Mentions(metadata, id) \/ Mentions(data, id)
    \/ Mentions(versionMetadata, id) \/ Mentions(versionData, id))

NoProbe == [stage |-> "idle", f |-> <<>>, n |-> 0, versionId |-> <<>>,
            parsed |-> parseVersionId(<<>>)]

Done(op, ownerId, id, arg, status, r) ==
  /\ metadata' = r.S.metadata
  /\ data' = r.S.data
  /\ versionMetadata' = r.S.versionMetadata
  /\ versionData' = r.S.versionData
  /\ last' = [op |-> op, owner |-> ownerId, id |-> id, arg |-> arg, status |-> status,
              ok |-> r.ok, error |-> r.error, ret |-> r.ret,
              f |-> IF r.f = <<>> THEN <<>> ELSE <<r.f>>]
  /\ UNCHANGED <<now, probe>>

DoneRoute(op, ownerId, id, arg, res) ==
  /\ metadata' = res.S.metadata
  /\ data' = res.S.data
  /\ versionMetadata' = res.S.versionMetadata
  /\ versionData' = res.S.versionData
  /\ last' = [op |-> op, owner |-> ownerId, id |-> id, arg |-> arg, status |-> res.status,
              ok |-> res.ok, error |-> res.error, ret |-> res.ret, f |-> res.f]
  /\ UNCHANGED <<now, probe>>

Write == ops < MaxOps /\ ops' = ops + 1

Init ==
  /\ metadata = EmptyDb
  /\ data = EmptyDb
  /\ versionMetadata = EmptyDb
  /\ versionData = EmptyDb
  /\ last = [op |-> "init", owner |-> "", id |-> <<>>, arg |-> <<>>, status |-> 0,
             ok |-> TRUE, error |-> "", ret |-> <<>>, f |-> <<>>]
  /\ now = 0
  /\ ops = 0
  /\ probe = NoProbe

Tick ==
  /\ now < MaxClock
  /\ now' = now + 1
  /\ UNCHANGED <<metadata, data, versionMetadata, versionData, last, ops, probe>>

\* The instance a caller works on: the stored fragment reconstructed by byId,
\* or, for an id that names no stored fragment, new Fragment({id, ownerId, type})
Instance(ownerId, id, type) ==
  IF byId(Stores, ownerId, id) # <<>> THEN byId(Stores, ownerId, id)[1]
  ELSE Fragment(id, ownerId, now, now, type, 0)

\* fragment.save()
Save(SS) ==
  /\ Write
  /\ \E s \in SS, type \in Types :
       /\ byId(Stores, s[1], s[2]) # <<>> => type = byId(Stores, s[1], s[2])[1].type
       /\ Done("save", s[1], s[2], <<>>, 0, save(Stores, Instance(s[1], s[2], type), now))

\* fragment.setData(buf)
SetData(SS) ==
  /\ Write
  /\ \E s \in SS, type \in Types, buf \in Buffers :
       /\ byId(Stores, s[1], s[2]) # <<>> => type = byId(Stores, s[1], s[2])[1].type
       /\ Done("setData", s[1], s[2], <<buf>>, 0,
               setData(Stores, Instance(s[1], s[2], type), buf, now))

\* (await Fragment.byId(ownerId, id)).createVersion()
CreateVersion(SS) ==
  /\ Write
  /\ \E s \in SS :
       /\ byId(Stores, s[1], s[2]) # <<>>
       /\ getLatestVersionNumber(versionMetadata, s[1], s[2]) < MaxVersionNum
       /\ Done("createVersion", s[1], s[2], <<>>, 0,
               createVersion(Stores, byId(Stores, s[1], s[2])[1], now))

Post(SS) ==
  /\ Write
  /\ \E o \in {s[1] : s \in SS}, id \in UuidIds, type \in Types, body \in Buffers :
       /\ Fresh(id)
       /\ DoneRoute("POST", o, id, <<type, body>>, post(Stores, o, id, type, body, now))

Put(SS) ==
  /\ Write
  /\ \E s \in SS, contentType \in Types, body \in Buffers :
       DoneRoute("PUT", s[1], s[2], <<contentType, body>>,
                 put(Stores, s[1], s[2], contentType, body, now))

DeleteById(SS) ==
  /\ Write
  /\ \E s \in SS :
       DoneRoute("DELETE", s[1], s[2], <<>>, deleteById(Stores, s[1], s[2]))

RestoreVersion(SS) ==
  /\ Write
  /\ \E s \in SS, versionId \in VersionIdInputs :
       DoneRoute("RESTORE", s[1], s[2], <<versionId>>,
                 restoreVersionRoute(Stores, s[1], s[2], versionId, now))

Next ==
  \/ Tick
  \/ Save(Slots)
  \/ SetData(Slots)
  \/ CreateVersion(Slots)
  \/ Post(Slots)
  \/ Put(Slots)
  \/ DeleteById(Slots)
  \/ RestoreVersion(Slots)

Spec == Init /\ [][Next]_vars

NextOwners ==
  \/ Tick
  \/ Save(OwnerSlots)
  \/ SetData(OwnerSlots)
  \/ CreateVersion(OwnerSlots)
  \/ Post(OwnerSlots)
  \/ Put(OwnerSlots)
  \/ DeleteById(OwnerSlots)
  \/ RestoreVersion(OwnerSlots)

SpecOwners == Init /\ [][NextOwners]_vars

\* ------------------------------------------------- reads of the versions
\* (await Fragment.byId(ownerId, id)).getVersion(versionId)
GetVersion(SS) ==
  /\ ops' = ops
  /\ \E s \in SS, versionId \in VersionIdInputs :
       /\ byId(Stores, s[1], s[2]) # <<>>
       /\ Done("getVersion", s[1], s[2], <<versionId>>, 0,
               getVersion(Stores, byId(Stores, s[1], s[2])[1], versionId))

\* await Fragment.byId(ownerId, id), with a metadata read that may fail
ById(SS) ==
  /\ ops' = ops
  /\ \E s \in SS, fault \in BOOLEAN :
       LET r == byIdFrom(readFragment(metadata, s[1], s[2], fault))
       IN Done("byId", s[1], s[2], <<fault>>, 0, Out(r.ok, r.error, Stores, <<>>, r.ret))

\* (await Fragment.byId(ownerId, id)).getVersions(expand)
GetVersions(SS) ==
  /\ ops' = ops
  /\ \E s \in SS, expand \in BOOLEAN :
       /\ byId(Stores, s[1], s[2]) # <<>>
       /\ Done("getVersions", s[1], s[2], <<expand>>, 0,
               getVersions(Stores, byId(Stores, s[1], s[2])[1], expand))

NextRead ==
  \/ SetData(Slots)
  \/ CreateVersion(Slots)
  \/ GetVersion(Slots)
  \/ ById(Slots)
  \/ GetVersions(Slots)

SpecRead == Init /\ [][NextRead]_vars

\* ---------------------------------------- version ids, as pure functions
\* every string over IdAlphabet of at most MaxIdLen characters
IdStrings == UNION {[1..k -> IdAlphabet] : k \in 0..MaxIdLen}

InitId ==
  /\ metadata = EmptyDb
  /\ data = EmptyDb
  /\ versionMetadata = EmptyDb
  /\ versionData = EmptyDb
  /\ last = [op |-> "init", owner |-> "", id |-> <<>>, arg |-> <<>>, status |-> 0,
             ok |-> TRUE, error |-> "", ret |-> <<>>, f |-> <<>>]
  /\ now = 0
  /\ ops = 0
  /\ \E f \in IdStrings, n \in 1..MaxN :
       probe = [NoProbe EXCEPT !.stage = "input", !.f = f, !.n = n]

ToVersionId ==
  /\ probe.stage = "input"
  /\ probe' = [probe EXCEPT !.stage = "made", !.versionId = toVersionId(probe.f, probe.n)]
  /\ UNCHANGED <<metadata, data, versionMetadata, versionData, last, now, ops>>

ParseVersionId ==
  /\ probe.stage = "made"
  /\ probe' = [probe EXCEPT !.stage = "parsed", !.parsed = parseVersionId(probe.versionId)]
  /\ UNCHANGED <<metadata, data, versionMetadata, versionData, last, now, ops>>

NextId ==
  \/ ToVersionId
  \/ ParseVersionId

SpecId == InitId /\ [][NextId]_vars

\* ------------------------------------- parseVersionId on arbitrary strings
MaxVidLen == 5

VidAlphabet == {"a", "_", "v", "1", "0"}

\* every string over VidAlphabet of at most MaxVidLen characters
VidStrings == UNION {[1..k -> VidAlphabet] : k \in 0..MaxVidLen}

InitParse ==
  /\ metadata = EmptyDb
  /\ data = EmptyDb
  /\ versionMetadata = EmptyDb
  /\ versionData = EmptyDb
  /\ last = [op |-> "init", owner |-> "", id |-> <<>>, arg |-> <<>>, status |-> 0,
             ok |-> TRUE, error |-> "", ret |-> <<>>, f |-> <<>>]
  /\ now = 0
  /\ ops = 0
  /\ \E s \in VidStrings :
       probe = [NoProbe EXCEPT !.stage = "given", !.versionId = s]

ParseGiven ==
  /\ probe.stage = "given"
  /\ probe' = [probe EXCEPT !.stage = "parsedGiven",
                            !.parsed = parseVersionId(probe.versionId)]
  /\ UNCHANGED <<metadata, data, versionMetadata, versionData, last, now, ops>>

NextParse == ParseGiven

SpecParse == InitParse /\ [][NextParse]_vars

\* ------------------------------------------- the constructor, on its own
MaxSize == 2

\* '' stands for undefined too: only truthiness is tested
OwnerIdInputs == {"", "A"}

TypeInputs ==
  {<<>>, TextPlain, TextPlainCharset, TextMarkdown, TextMarkdownCharset, TextHtml,
   TextCsv, ApplicationJson, ApplicationJsonCharset, ApplicationYaml, ApplicationYml,
   ImagePng, ImageJpeg, ImageWebp, ImageAvif, ImageGif, ApplicationOctetStream,
   <<"invalid", " ", "content", " ", "type">>, <<"text", "/", "xml">>}

SizeInputs == {Undefined, NaN, Str(1)} \cup {Num(n) : n \in (0 - MaxSize)..MaxSize}

InitCtor ==
  /\ metadata = EmptyDb
  /\ data = EmptyDb
  /\ versionMetadata = EmptyDb
  /\ versionData = EmptyDb
  /\ last = [op |-> "init", owner |-> "", id |-> <<>>, arg |-> <<>>, status |-> 0,
             ok |-> TRUE, error |-> "", ret |-> <<>>, f |-> <<>>]
  /\ now = 0
  /\ ops = 0
  /\ \E o \in OwnerIdInputs, type \in TypeInputs, size \in SizeInputs :
       probe = [stage |-> "args", ownerId |-> o, type |-> type, size |-> size,
                result |-> newFragment(IdA, "", 0, 0, <<>>, Undefined)]

Construct ==
  /\ probe.stage = "args"
  /\ probe' = [probe EXCEPT !.stage = "constructed",
                            !.result = newFragment(IdA, probe.ownerId, now, now,
                                                   probe.type, probe.size)]
  /\ UNCHANGED <<metadata, data, versionMetadata, versionData, last, now, ops>>

NextCtor == Construct

SpecCtor == InitCtor /\ [][NextCtor]_vars

\* ------------------------------------- formats and canConvert, on their own
SupportedTypeInputs ==
  {TextPlain, TextPlainCharset, TextMarkdown, TextMarkdownCharset, TextHtml, TextCsv,
   ApplicationJson, ApplicationJsonCharset, ApplicationYaml, ApplicationYml,
   ImagePng, ImageJpeg, ImageWebp, ImageAvif, ImageGif}

ExtInputs ==
  {"txt", "md", "html", "csv", "json", "yaml", "yml",
   "png", "jpg", "jpeg", "webp", "gif", "avif", "text/plain", "exe"}

InitFormats ==
  /\ metadata = EmptyDb
  /\ data = EmptyDb
  /\ versionMetadata = EmptyDb
  /\ versionData = EmptyDb
  /\ last = [op |-> "init", owner |-> "", id |-> <<>>, arg |-> <<>>, status |-> 0,
             ok |-> TRUE, error |-> "", ret |-> <<>>, f |-> <<>>]
  /\ now = 0
  /\ ops = 0
  /\ \E type \in SupportedTypeInputs, ext \in ExtInputs :
       probe = [stage |-> "args", type |-> type, extension |-> ext,
                formats |-> <<>>, canConvert |-> FALSE]

Formats ==
  /\ probe.stage = "args"
  /\ probe' = [probe EXCEPT !.stage = "listed", !.formats = formats(probe.type)]
  /\ UNCHANGED <<metadata, data, versionMetadata, versionData, last, now, ops>>

CanConvert ==
  /\ probe.stage = "listed"
  /\ probe' = [probe EXCEPT !.stage = "asked",
                            !.canConvert = canConvert(probe.type, probe.extension)]
  /\ UNCHANGED <<metadata, data, versionMetadata, versionData, last, now, ops>>

NextFormats ==
  \/ Formats
  \/ CanConvert

SpecFormats == InitFormats /\ [][NextFormats]_vars

\* ------------------------------------------------ convertData, on its own
Envs == {Env(j, y, s, out) : j \in BOOLEAN, y \in BOOLEAN, s \in BOOLEAN, out \in Buffers}

InitConvert ==
  /\ metadata = EmptyDb
  /\ data = EmptyDb
  /\ versionMetadata = EmptyDb
  /\ versionData = EmptyDb
  /\ last = [op |-> "init", owner |-> "", id |-> <<>>, arg |-> <<>>, status |-> 0,
             ok |-> TRUE, error |-> "", ret |-> <<>>, f |-> <<>>]
  /\ now = 0
  /\ ops = 0
  /\ \E buf \in Buffers, type \in SupportedTypeInputs, ext \in ExtInputs, env \in Envs :
       probe = [stage |-> "args", data |-> buf, sourceType |-> type, targetExt |-> ext,
                env |-> env, result |-> Returned(<<>>)]

ConvertData ==
  /\ probe.stage = "args"
  /\ probe' = [probe EXCEPT !.stage = "converted",
                            !.result = convertData(probe.data, probe.sourceType,
                                                   probe.targetExt, probe.env)]
  /\ UNCHANGED <<metadata, data, versionMetadata, versionData, last, now, ops>>

NextConvert == ConvertData

SpecConvert == InitConvert /\ [][NextConvert]_vars

\* ------------------------------------------------------- the read path
GetTypes == {TextPlain, TextMarkdown, ApplicationJson, ImagePng}

UrlExts == ExtInputs \ {"text/plain"}

\* the :id of a GET: a fragment id, bare or followed by '.' and an extension
RequestIds(id) == {id} \cup {id \o <<".", ext>> : ext \in UrlExts}

PostTyped(SS) ==
  /\ Write
  /\ \E o \in {s[1] : s \in SS}, id \in UuidIds, type \in GetTypes, body \in Buffers :
       /\ Fresh(id)
       /\ DoneRoute("POST", o, id, <<type, body>>, post(Stores, o, id, type, body, now))

GetById(SS) ==
  /\ ops' = ops
  /\ \E s \in SS, env \in Envs :
       \E id \in RequestIds(s[2]) :
         DoneRoute("GET", s[1], s[2], <<id>>, getById(Stores, s[1], id, env))

NextGet ==
  \/ PostTyped(Slots)
  \/ DeleteById(Slots)
  \/ GetById(Slots)

SpecGet == Init /\ [][NextGet]_vars

\* -------------------------------------------- operations on failing stores
\* Which of the storage calls of one operation reject
Faults(writeData, writeMeta, readData, writeVersion, writeVersionData) ==
  [writeFragmentData |-> writeData, writeFragment |-> writeMeta,
   readFragmentData |-> readData, writeFragmentVersion |-> writeVersion,
   writeFragmentVersionData |-> writeVersionData]

NoFaults == Faults(FALSE, FALSE, FALSE, FALSE, FALSE)

\* fragment.save() when writeFragment may reject: this.updated is assigned
\* before the write is tried
saveUnder(S, f, t, F) ==
  LET g == [f EXCEPT !.updated = t]
  IN IF F.writeFragment THEN Out(FALSE, "store failed", S, g, <<>>)
     ELSE Out(TRUE, "", [S EXCEPT !.metadata = writeFragment(@, g)], g, <<>>)

\* fragment.getData() when readFragmentData may reject
getDataUnder(S, f, F) ==
  IF F.readFragmentData THEN Out(FALSE, "store failed", S, f, <<>>) ELSE getData(S, f)

\* slip: the metadata is persisted before the content is written
setDataUnder_SaveFirst(S, f, buf, t, F) ==
  LET g == [f EXCEPT !.size = Len(buf), !.updated = t]
      r == saveUnder(S, g, t, F)
  IN IF ~r.ok THEN r
     ELSE IF F.writeFragmentData THEN Out(FALSE, "store failed", r.S, f, <<>>)
     ELSE Out(TRUE, "", [r.S EXCEPT !.data = writeFragmentData(@, f.ownerId, f.id, buf)],
              r.f, <<>>)

\* fragment.setData(buf) when writeFragmentData and writeFragment may reject
setDataUnder(S, f, buf, t, F) ==
  IF F.writeFragmentData THEN Out(FALSE, "store failed", S, f, <<>>)
  ELSE LET S1 == [S EXCEPT !.data = writeFragmentData(@, f.ownerId, f.id, buf)]
           g == [f EXCEPT !.size = Len(buf), !.updated = t]
       IN saveUnder(S1, g, t, F)

\* PUT /fragments/:id when storage calls may reject
putUnder(S, ownerId, id, contentType, body, t, F) ==
  LET fragment == byId(S, ownerId, id)
  IN IF fragment = <<>> THEN Resp(404, FALSE, "Fragment not found", S, <<>>, <<>>)
     ELSE IF fragment[1].type # contentType
     THEN Resp(400, FALSE, "Content-Type cannot be changed after fragment is created",
               S, fragment, <<>>)
     ELSE LET r == setDataUnder(S, fragment[1], body, t, F)
          IN IF r.ok THEN Resp(200, TRUE, "", r.S, <<r.f>>, <<r.f>>)
             ELSE Resp(500, FALSE, r.error, r.S, <<r.f>>, <<>>)

Backends == {"memory", "aws"}

\* listFragmentVersions of the memory adapter when the listing fails inside
\* its try block: the catch answers []
memoryListFragmentVersions(vmeta, ownerId, fragmentId, expand, fault) ==
  IF fault THEN [ok |-> TRUE, ret |-> <<>>]
  ELSE [ok |-> TRUE, ret |-> listFragmentVersions(vmeta, ownerId, fragmentId, expand)]

\* listFragmentVersions of the AWS adapter: a query on ownerId filtered by
\* fragmentId = :fragmentId; a failed query is logged and thrown again
awsListFragmentVersions(vmeta, ownerId, fragmentId, expand, fault) ==
  LET Items == SelectSeq(vmeta[ownerId], LAMBDA e : e.val.fragmentId = fragmentId)
  IN IF fault THEN [ok |-> FALSE, ret |-> <<>>]
     ELSE IF expand
     THEN [ok |-> TRUE, ret |-> SortDesc([i \in 1..Len(Items) |-> Items[i].val])]
     ELSE [ok |-> TRUE, ret |-> [i \in 1..Len(Items) |-> Items[i].key]]

\* process.env.AWS_REGION ? require('./data/aws/versions') : require('./data/memory/versions')
listFragmentVersionsOn(backend, vmeta, ownerId, fragmentId, expand, fault) ==
  IF backend = "aws" THEN awsListFragmentVersions(vmeta, ownerId, fragmentId, expand, fault)
  ELSE memoryListFragmentVersions(vmeta, ownerId, fragmentId, expand, fault)

\* getLatestVersionNumber, the same in both adapters: a listing that throws is
\* caught and answered with 0
getLatestVersionNumberOn(backend, vmeta, ownerId, fragmentId, fault) ==
  LET versions == listFragmentVersionsOn(backend, vmeta, ownerId, fragmentId, TRUE, fault)
  IN IF ~versions.ok THEN 0
     ELSE IF Len(versions.ret) = 0 THEN 0
     ELSE SortDesc(versions.ret)[1].versionNum

\* slip: the version's content is written before its metadata
createVersionUnder_DataFirst(S, f, t, backend, lookupFault, F) ==
  LET lastVersionNum ==
        getLatestVersionNumberOn(backend, S.versionMetadata, f.ownerId, f.id, lookupFault)
      newVersionNum == lastVersionNum + 1
      versionId == toVersionId(f.id, newVersionNum)
      version == [id |-> versionId, fragmentId |-> f.id, ownerId |-> f.ownerId,
                  created |-> t, updated |-> t, type |-> f.type, size |-> f.size,
                  versionNum |-> newVersionNum]
      d == getDataUnder(S, f, F)
      S1 == [S EXCEPT !.versionData = writeFragmentVersionData(@, f.ownerId, versionId, d.ret[1])]
  IN IF ~d.ok THEN Out(FALSE, d.error, S, f, <<>>)
     ELSE IF F.writeFragmentVersionData THEN Out(FALSE, "store failed", S, f, <<>>)
     ELSE IF F.writeFragmentVersion THEN Out(FALSE, "store failed", S1, f, <<>>)
     ELSE Out(TRUE, "", [S1 EXCEPT !.versionMetadata = writeFragmentVersion(@, version)],
              f, <<version>>)

\* fragment.createVersion() when the lookup, the content read and the two
\* version writes may fail
createVersionUnder(S, f, t, backend, lookupFault, F) ==
  LET lastVersionNum ==
        getLatestVersionNumberOn(backend, S.versionMetadata, f.ownerId, f.id, lookupFault)
      newVersionNum == lastVersionNum + 1
      versionId == toVersionId(f.id, newVersionNum)
      version == [id |-> versionId, fragmentId |-> f.id, ownerId |-> f.ownerId,
                  created |-> t, updated |-> t, type |-> f.type, size |-> f.size,
                  versionNum |-> newVersionNum]
      d == getDataUnder(S, f, F)
      S1 == [S EXCEPT !.versionMetadata = writeFragmentVersion(@, version)]
  IN IF ~d.ok THEN Out(FALSE, d.error, S, f, <<>>)
     ELSE IF F.writeFragmentVersion THEN Out(FALSE, "store failed", S, f, <<>>)
     ELSE IF F.writeFragmentVersionData THEN Out(FALSE, "store failed", S1, f, <<>>)
     ELSE Out(TRUE, "",
              [S1 EXCEPT !.versionData = writeFragmentVersionData(@, f.ownerId, versionId, d.ret[1])],
              f, <<version>>)

\* fragment.getVersions(expand): the adapter's answer, or its error thrown again
getVersionsOn(S, f, expand, backend, fault) ==
  LET r == listFragmentVersionsOn(backend, S.versionMetadata, f.ownerId, f.id, expand, fault)
  IN IF r.ok THEN Out(TRUE, "", S, f, <<r.ret>>)
     ELSE Out(FALSE, "store failed", S, f, <<>>)

\* the one fragment these behaviours work on: with a single fragment id the
\* two adapters list the same versions whenever the listing does not fail
SlotA == {<<"A", IdA>>}

SetDataFaults == {Faults(wd, wm, FALSE, FALSE, FALSE) : wd \in BOOLEAN, wm \in BOOLEAN}
CreateVersionFaults ==
  {Faults(FALSE, FALSE, rd, wv, wvd) : rd \in BOOLEAN, wv \in BOOLEAN, wvd \in BOOLEAN}
PutFaults == {Faults(FALSE, FALSE, FALSE, wv, wv) : wv \in BOOLEAN}

\* (await Fragment.byId(ownerId, id)).setData(buf)
SetDataUnder(SS) ==
  /\ Write
  /\ \E s \in SS, buf \in Buffers, F \in SetDataFaults :
       /\ byId(Stores, s[1], s[2]) # <<>>
       /\ Done("setData", s[1], s[2], <<buf, F>>, 0,
               setDataUnder(Stores, byId(Stores, s[1], s[2])[1], buf, now, F))

\* (await Fragment.byId(ownerId, id)).createVersion()
CreateVersionUnder(SS) ==
  /\ Write
  /\ \E s \in SS, backend \in Backends, lookupFault \in BOOLEAN, F \in CreateVersionFaults :
       /\ byId(Stores, s[1], s[2]) # <<>>
       /\ getLatestVersionNumber(versionMetadata, s[1], s[2]) < MaxVersionNum
       /\ Done("createVersion", s[1], s[2], <<backend, lookupFault, F>>, 0,
               createVersionUnder(Stores, byId(Stores, s[1], s[2])[1], now,
                                  backend, lookupFault, F))

PutUnder(SS) ==
  /\ Write
  /\ \E s \in SS, contentType \in Types, body \in Buffers, F \in PutFaults :
       DoneRoute("PUT", s[1], s[2], <<contentType, body, F>>,
                 putUnder(Stores, s[1], s[2], contentType, body, now, F))

\* (await Fragment.byId(ownerId, id)).getVersions(expand)
GetVersionsOn(SS) ==
  /\ ops' = ops
  /\ \E s \in SS, expand \in BOOLEAN, backend \in Backends, fault \in BOOLEAN :
       /\ byId(Stores, s[1], s[2]) # <<>>
       /\ Done("getVersions", s[1], s[2], <<expand, backend, fault>>, 0,
               getVersionsOn(Stores, byId(Stores, s[1], s[2])[1], expand, backend, fault))

NextFault ==
  \/ Tick
  \/ Post(SlotA)
  \/ SetDataUnder(SlotA)
  \/ CreateVersionUnder(SlotA)
  \/ PutUnder(SlotA)
  \/ RestoreVersion(SlotA)
  \/ GetVersionsOn(SlotA)

SpecFault == Init /\ [][NextFault]_vars

\* ------------------------------------------------- calls that interleave
\* Two callers run handlers whose awaits let the other caller in. Under
\* SpecSteps, probe.call[w] is caller w's position and locals: the Fragment
\* instance f it works on, the body buf it was given, and, for an update
\* (createVersion() then setData(buf)), the number of versions stored when it
\* began, the latest version number n it was answered, the version record it
\* built and the content snap it read.
Callers == {1, 2}

Idle == [pc |-> "idle", f |-> <<>>, buf |-> <<>>, began |-> 0, n |-> 0,
         version |-> <<>>, snap |-> <<>>]

InitSteps ==
  /\ metadata = EmptyDb
  /\ data = EmptyDb
  /\ versionMetadata = EmptyDb
  /\ versionData = EmptyDb
  /\ last = [op |-> "init", owner |-> "", id |-> <<>>, arg |-> <<>>, status |-> 0,
             ok |-> TRUE, error |-> "", ret |-> <<>>, f |-> <<>>]
  /\ now = 0
  /\ ops = 0
  /\ probe = [stage |-> "calls", call |-> [w \in Callers |-> Idle]]

\* caller w moves to c, leaving the stores as S
Step(w, c, S) ==
  /\ metadata' = S.metadata
  /\ data' = S.data
  /\ versionMetadata' = S.versionMetadata
  /\ versionData' = S.versionData
  /\ probe' = [probe EXCEPT !.call[w] = c]
  /\ UNCHANGED <<last, now>>

\* a caller starts a handler
Begin == ops < MaxCalls /\ ops' = ops + 1

AtRest(w) == probe.call[w].pc \in {"idle", "posted", "updated", "failed"}

\* POST /fragments up to the end of `await fragment.save()`
PostSave ==
  /\ Begin
  /\ \E w \in Callers, id \in UuidIds, type \in Types, body \in Buffers :
       /\ AtRest(w)
       /\ Fresh(id)
       /\ LET r == save(Stores, Fragment(id, "A", now, now, type, Len(body)), now)
          IN Step(w, [Idle EXCEPT !.pc = "postSaved", !.f = r.f, !.buf = body], r.S)

\* POST /fragments from `await fragment.setData(req.body)` on
PostSetData ==
  /\ ops' = ops
  /\ \E w \in Callers :
       /\ probe.call[w].pc = "postSaved"
       /\ LET c == probe.call[w]
              r == setData(Stores, c.f, c.buf, now)
          IN Step(w, [c EXCEPT !.pc = "posted", !.f = r.f], r.S)

\* an update begins: const fragment = await Fragment.byId(ownerId, id)
UpdateById ==
  /\ Begin
  /\ \E w \in Callers, buf \in Buffers :
       /\ AtRest(w)
       /\ byId(Stores, "A", IdA) # <<>>
       /\ Step(w, [Idle EXCEPT !.pc = "lookup", !.f = byId(Stores, "A", IdA)[1], !.buf = buf,
                               !.began = Len(versionMetadata["A"])],
               Stores)

\* createVersion up to the end of `await getLatestVersionNumber(...)`; the
\* version object is built before the next await
UpdateLookup ==
  /\ ops' = ops
  /\ \E w \in Callers :
       /\ probe.call[w].pc = "lookup"
       /\ LET c == probe.call[w]
              lastVersionNum == getLatestVersionNumber(versionMetadata, c.f.ownerId, c.f.id)
              newVersionNum == lastVersionNum + 1
              versionId == toVersionId(c.f.id, newVersionNum)
              version == [id |-> versionId, fragmentId |-> c.f.id, ownerId |-> c.f.ownerId,
                          created |-> now, updated |-> now, type |-> c.f.type,
                          size |-> c.f.size, versionNum |-> newVersionNum]
          IN /\ lastVersionNum < MaxVersionNum
             /\ Step(w, [c EXCEPT !.pc = "getData", !.n = lastVersionNum, !.version = version],
                     Stores)

\* createVersion: const data = await this.getData()
UpdateGetData ==
  /\ ops' = ops
  /\ \E w \in Callers :
       /\ probe.call[w].pc = "getData"
       /\ LET c == probe.call[w]
              d == getData(Stores, c.f)
          IN IF d.ok
             THEN Step(w, [c EXCEPT !.pc = "writeFragmentVersion", !.snap = d.ret[1]], Stores)
             ELSE Step(w, [c EXCEPT !.pc = "failed"], Stores)

\* createVersion: await writeFragmentVersion(version)
UpdateWriteVersion ==
  /\ ops' = ops
  /\ \E w \in Callers :
       /\ probe.call[w].pc = "writeFragmentVersion"
       /\ LET c == probe.call[w]
          IN Step(w, [c EXCEPT !.pc = "writeFragmentVersionData"],
                  [Stores EXCEPT !.versionMetadata = writeFragmentVersion(@, c.version)])

\* createVersion: await writeFragmentVersionData(this.ownerId, versionId, data)
UpdateWriteVersionData ==
  /\ ops' = ops
  /\ \E w \in Callers :
       /\ probe.call[w].pc = "writeFragmentVersionData"
       /\ LET c == probe.call[w]
          IN Step(w, [c EXCEPT !.pc = "setData"],
                  [Stores EXCEPT !.versionData =
                     writeFragmentVersionData(@, c.f.ownerId, c.version.id, c.snap)])

\* the update's await fragment.setData(buf)
UpdateSetData ==
  /\ ops' = ops
  /\ \E w \in Callers :
       /\ probe.call[w].pc = "setData"
       /\ LET c == probe.call[w]
              r == setData(Stores, c.f, c.buf, now)
          IN Step(w, [c EXCEPT !.pc = "updated", !.f = r.f], r.S)

\* GET /fragments/:id, answered between the steps of the callers
Get ==
  /\ ops' = ops
  /\ \E env \in {e \in Envs : e.jsonOk /\ e.yamlOk /\ e.sharpOk /\ e.out = <<>>} :
       DoneRoute("GET", "A", IdA, <<IdA>>, getById(Stores, "A", IdA, env))

NextSteps ==
  \/ PostSave
  \/ PostSetData
  \/ UpdateById
  \/ UpdateLookup
  \/ UpdateGetData
  \/ UpdateWriteVersion
  \/ UpdateWriteVersionData
  \/ UpdateSetData
  \/ Get

SpecSteps == InitSteps /\ [][NextSteps]_vars

\* ================================================================ claims

\* the version records of one fragment: entries of the owner's version
\* metadata whose fragmentId is the fragment's id
VersionsOf(vmeta, ownerId, id) ==
  {vmeta[ownerId][i] : i \in {j \in 1..Len(vmeta[ownerId]) : vmeta[ownerId][j].val.fragmentId = id}}

Wrote == ops' = ops + 1

\* C1: the versions of a fragment that started with none are numbered exactly
\* 1, 2, ..., N, without gaps or repeats, each stored under <fragmentId>_v<versionNum>.
C1_Numbering ==
  \A s \in Slots :
    LET vs == VersionsOf(versionMetadata, s[1], s[2])
    IN /\ {e.val.versionNum : e \in vs} = 1..Cardinality(vs)
       /\ \A e \in vs : e.key = toVersionId(s[2], e.val.versionNum) /\ e.val.id = e.key

\* C2: every successful PUT creates exactly one new version, which holds the
\* bytes, type and size the fragment had immediately before the PUT.
C2_PutCreatesVersion ==
  [][(Wrote /\ last'.op = "PUT" /\ last'.status = 200) =>
       LET o == last'.owner
           id == last'.id
           before == VersionsOf(versionMetadata, o, id)
           after == VersionsOf(versionMetadata', o, id)
       IN /\ Cardinality(after) = Cardinality(before) + 1
          /\ \A e \in after \ before :
               /\ e.val.type = DbGet(metadata, o, id).type
               /\ e.val.size = DbGet(metadata, o, id).size
               /\ DbHas(versionData', o, e.key)
               /\ DbGet(versionData', o, e.key) = DbGet(data, o, id)]_vars

\* C3: after a successful restoreVersion(versionId), getData() returns the bytes
\* stored for that version, and fragment.size, the persisted size and the size
\* recorded for the version all equal the length of those bytes.
C3_RestoreContent ==
  (last.op = "RESTORE" /\ last.ok) =>
    LET f == last.f[1]
        versionId == last.arg[1]
        bytes == DbGet(versionData, f.ownerId, versionId)
    IN /\ getData(Stores, f).ok
       /\ getData(Stores, f).ret = <<bytes>>
       /\ f.size = Len(bytes)
       /\ DbGet(metadata, f.ownerId, f.id).size = Len(bytes)
       /\ DbHas(versionMetadata, f.ownerId, versionId)
            => DbGet(versionMetadata, f.ownerId, versionId).size = Len(bytes)

\* a restore to version 1 of a non-empty buffer, after which the fragment holds it
C3_Witness ==
  /\ last.op = "RESTORE" /\ last.ok
  /\ last.arg[1] = toVersionId(IdA, 1)
  /\ Len(DbGet(versionData, "A", toVersionId(IdA, 1))) = MaxLen
  /\ DbGet(data, "A", IdA) = DbGet(versionData, "A", toVersionId(IdA, 1))
  /\ DbGet(metadata, "A", IdA).updated > DbGet(versionMetadata, "A", toVersionId(IdA, 1)).created

\* C4: restoreVersion changes no version store (no version deleted, none created)
\* and nothing of any other fragment; only the restored fragment's content and
\* metadata change.
C4_RestoreFrame ==
  [][(Wrote /\ last'.op = "RESTORE") =>
       /\ versionMetadata' = versionMetadata
       /\ versionData' = versionData
       /\ \A s \in Slots : (s[1] # last'.owner \/ s[2] # last'.id) =>
            /\ byId(Stores', s[1], s[2]) = byId(Stores, s[1], s[2])
            /\ getData(Stores', Fragment(s[2], s[1], 0, 0, "", 0)).ret
                 = getData(Stores, Fragment(s[2], s[1], 0, 0, "", 0)).ret]_vars

\* a restore to version 1 while the later version 2 exists
C4_Witness ==
  /\ last.op = "RESTORE" /\ last.ok
  /\ last.arg[1] = toVersionId(IdA, 1)
  /\ Cardinality(VersionsOf(versionMetadata, "A", IdA)) = 2
  /\ DbHas(versionData, "A", toVersionId(IdA, 2))

Written ==
  CASE last.op = "setData" -> last.arg[1]
    [] last.op \in {"POST", "PUT"} -> last.arg[2]
    [] OTHER -> DbGet(versionData, last.owner, last.arg[1])

\* C6: after every successful setData(buf), direct or via POST, PUT or
\* restoreVersion, fragment.size is buf.length, the persisted size is the length
\* of the persisted content, and size is not negative.
C6_SizeMatches ==
  (last.op \in {"setData", "POST", "PUT", "RESTORE"} /\ last.ok) =>
    LET f == last.f[1]
    IN /\ f.size = Len(Written)
       /\ DbGet(metadata, f.ownerId, f.id).size = Len(DbGet(data, f.ownerId, f.id))
       /\ f.size >= 0

\* a PUT that replaced a shorter buffer by a longer one
C6_Witness ==
  /\ last.op = "PUT" /\ last.ok
  /\ Len(last.arg[2]) = MaxLen
  /\ \E o \in Owners : \E i \in 1..Len(versionData[o]) : Len(versionData[o][i].val) < MaxLen

\* C7: setData(B) immediately followed by getData() returns B.
C7_RoundTrip ==
  (last.op = "setData" /\ last.ok) =>
    /\ getData(Stores, last.f[1]).ok
    /\ getData(Stores, last.f[1]).ret = <<last.arg[1]>>

\* setData on a fragment that already held other bytes
C7_Witness ==
  /\ last.op = "setData" /\ last.ok
  /\ Len(last.arg[1]) = MaxLen
  /\ \E i \in 1..Len(versionData["A"]) :
       /\ versionData["A"][i].key = toVersionId(last.id, 1)
       /\ versionData["A"][i].val # last.arg[1]

\* C8: after a successful delete, byId returns null, the content is absent and
\* no version metadata or version content of the fragment remains.
C8_DeleteCascades ==
  (last.op = "DELETE" /\ last.status = 200) =>
    /\ byId(Stores, last.owner, last.id) = <<>>
    /\ ~DbHas(data, last.owner, last.id)
    /\ VersionsOf(versionMetadata, last.owner, last.id) = {}
    /\ listFragmentVersions(versionMetadata, last.owner, last.id, FALSE) = <<>>
    /\ \A n \in 1..MaxVersionNum : ~DbHas(versionData, last.owner, toVersionId(last.id, n))

\* the stores with the partition of owner b emptied
Erase(S, b) ==
  [metadata |-> [S.metadata EXCEPT ![b] = <<>>],
   data |-> [S.data EXCEPT ![b] = <<>>],
   versionMetadata |-> [S.versionMetadata EXCEPT ![b] = <<>>],
   versionData |-> [S.versionData EXCEPT ![b] = <<>>]]

\* the version ids stored under any owner
StoredVersionIds(S) ==
  UNION {{S.versionMetadata[o][i].key : i \in 1..Len(S.versionMetadata[o])} : o \in Owners}

\* what owner o can read of fragment id: byId, getData, getVersions, and
\* getVersion of every version id in vids
Reads(S, o, id, vids) ==
  LET f == Fragment(id, o, 0, 0, TextPlain, 0)
  IN <<byId(S, o, id), getData(S, f).ret,
       getVersions(S, f, TRUE).ret, getVersions(S, f, FALSE).ret,
       [versionId \in vids |-> getVersion(S, f, versionId).ret]>>

C10_RoundTrip ==
  (probe.stage = "parsed" /\ IndexOf(probe.f, Sep) = 0)
    => /\ probe.parsed.ok
       /\ probe.parsed.fragmentId = probe.f
       /\ probe.parsed.versionNum = probe.n

\* an id of full length ending in "_", with a two-digit version number, parsed
C10_Witness ==
  /\ probe.stage = "parsed"
  /\ IndexOf(probe.f, Sep) = 0
  /\ Len(probe.f) = MaxIdLen
  /\ probe.f[Len(probe.f)] = "_"
  /\ probe.n >= 10
  /\ probe.parsed.versionNum = probe.n

\* s is <fragmentId>_v<positiveInteger>: a "_v" followed by a non-empty run of
\* digits, to the end of the string, whose value is positive
IsVersionIdForm(s) ==
  \E i \in 1..Len(s) :
    /\ i + 2 <= Len(s)
    /\ SubSeq(s, i, i + 1) = Sep
    /\ LET d == SubSeq(s, i + 2, Len(s))
       IN /\ \A k \in 1..Len(d) : IsDigit(d[k])
          /\ DigitsValue(d, 0) > 0

\* C11: parseVersionId returns a (fragmentId, versionNum) pair only for strings
\* of the form <fragmentId>_v<positiveInteger>; a string with no "_v" fails with
\* 'Invalid version ID format', and one whose text after its single "_v" does
\* not start with a digit fails with 'Invalid version number in version ID'.
C11_OnlyPattern ==
  probe.stage = "parsedGiven" =>
    LET s == probe.versionId
        parts == Split(s, Sep)
    IN /\ probe.parsed.ok => IsVersionIdForm(s)
       /\ IndexOf(s, Sep) = 0 =>
            ~probe.parsed.ok /\ probe.parsed.error = "Invalid version ID format"
       /\ (Len(parts) = 2 /\ LeadingDigits(parts[2]) = 0) =>
            ~probe.parsed.ok /\ probe.parsed.error = "Invalid version number in version ID"

\* C12: getVersion(versionId) does not throw for a bad id: it returns null when
\* versionId does not parse, when its fragment id is not this fragment's id, or
\* when no version metadata is stored under it; otherwise it returns the stored
\* metadata and data of exactly that version.
C12_GetVersion ==
  last.op = "getVersion" =>
    LET vid == last.arg[1]
        p == parseVersionId(vid)
    IN /\ last.ok
       /\ IF ~p.ok \/ p.fragmentId # last.id \/ ~DbHas(versionMetadata, last.owner, vid)
          THEN last.ret = <<>>
          ELSE /\ Len(last.ret) = 1
               /\ last.ret[1].metadata = DbGet(versionMetadata, last.owner, vid)
               /\ last.ret[1].metadata.id = vid
               /\ last.ret[1].metadata.fragmentId = last.id
               /\ last.ret[1].data = <<DbGet(versionData, last.owner, vid)>>

\* fragment a_vb is asked for a_v1, a stored version of fragment a of the same
\* owner, and answers null
C12_Witness ==
  /\ last.op = "getVersion"
  /\ last.id = IdAvb
  /\ last.arg[1] = toVersionId(IdA, 1)
  /\ DbHas(versionMetadata, last.owner, last.arg[1])
  /\ last.ret = <<>>

\* C13: restoreVersion(versionId) throws when versionId does not parse or names
\* another fragment, and throws the distinct 'Version data not found' when no
\* content is stored for the version; a refused restore leaves the fragment's
\* content, size, updated timestamp and stored metadata as they were.
C13_RestoreRefusals ==
  [][(Wrote /\ last'.op = "RESTORE" /\ byId(Stores, last'.owner, last'.id) # <<>>) =>
       LET o == last'.owner
           vid == last'.arg[1]
           p == parseVersionId(vid)
           bad == ~p.ok \/ p.fragmentId # last'.id
           absent == ~bad /\ ~DbHas(versionData, o, vid)
           kept == /\ metadata' = metadata
                   /\ data' = data
                   /\ last'.f = byId(Stores, o, last'.id)
       IN /\ bad => ~last'.ok /\ last'.error = "Invalid version ID format" /\ kept
          /\ absent => ~last'.ok /\ last'.error = "Version data not found" /\ kept
          /\ ~last'.ok => bad \/ absent]_vars

\* fragment a_vb, holding content, was asked to restore a_v1, a stored version
\* of fragment a, and refused
C13_Witness ==
  /\ last.op = "RESTORE"
  /\ last.id = IdAvb
  /\ last.arg[1] = toVersionId(IdA, 1)
  /\ DbHas(versionData, last.owner, last.arg[1])
  /\ DbHas(data, last.owner, IdAvb)
  /\ ~last.ok
  /\ last.error = "Invalid version ID format"

\* C14: constructing a Fragment fails, producing no entity, whenever ownerId is
\* missing, type is missing or unsupported, or size is not a non-negative
\* number; every Fragment constructed has a supported type and size >= 0.
C14_Construction ==
  probe.stage = "constructed" =>
    LET r == probe.result
        sizeGiven == IF probe.size = Undefined THEN Num(0) ELSE probe.size
        nonNegative == sizeGiven.kind = "number" /\ sizeGiven.val >= 0
        invalid == \/ probe.ownerId = ""
                   \/ probe.type = <<>>
                   \/ ~isSupportedType(probe.type)
                   \/ ~nonNegative
    IN /\ invalid => ~r.ok /\ r.f = <<>>
       /\ r.ok => /\ isSupportedType(r.f[1].type)
                  /\ r.f[1].size.kind = "number"
                  /\ r.f[1].size.val >= 0

\* the extensions the claim lists for a base media type
Registry(base) ==
  IF base = TextPlain THEN {"txt"}
  ELSE IF base = TextMarkdown THEN {"md", "html", "txt"}
  ELSE IF base = TextHtml THEN {"html", "txt"}
  ELSE IF base = TextCsv THEN {"csv", "txt", "json"}
  ELSE IF base = ApplicationJson THEN {"json", "txt", "yaml", "yml"}
  ELSE IF base \in {ApplicationYaml, ApplicationYml} THEN {"yaml", "yml", "json", "txt"}
  ELSE {"png", "jpg", "jpeg", "webp", "gif", "avif"}

BaseOf(type) == SubSeq(type, 1, 3)

\* C15: for every supported type, with or without parameters, formats is
\* exactly the registry's list for the base type: text/plain -> txt;
\* text/markdown -> md, html, txt; text/html -> html, txt; text/csv -> csv, txt,
\* json; application/json -> json, txt, yaml, yml; application/yaml -> yaml,
\* yml, json, txt; every image type -> png, jpg, jpeg, webp, gif, avif.
C15_Formats ==
  probe.stage \in {"listed", "asked"} =>
    {probe.formats[i] : i \in 1..Len(probe.formats)} = Registry(BaseOf(probe.type))

\* C16: canConvert(extension) is true only if the extension is in the
\* fragment's formats list, except that a text/plain fragment accepts 'txt' and
\* nothing else; the listed members of text/markdown and image types are accepted.
C16_CanConvert ==
  probe.stage = "asked" =>
    LET base == BaseOf(probe.type)
        ext == probe.extension
    IN /\ IF base = TextPlain THEN probe.canConvert <=> ext = "txt"
          ELSE probe.canConvert => Includes(probe.formats, ext)
       /\ (base = TextMarkdown /\ ext \in {"md", "html", "txt"}) => probe.canConvert
       /\ (base = ImagePng /\ ext \in {"png", "jpg", "webp", "gif"}) => probe.canConvert
       /\ (base = TextMarkdown /\ ext = "png") => ~probe.canConvert
       /\ (base = ImagePng /\ ext = "txt") => ~probe.canConvert

\* C18: when the extension's media type (getMimeType) is the base type of the
\* source type, convertData returns the input bytes unchanged, image types
\* included.
C18_Identity ==
  (probe.stage = "converted" /\ getMimeType(probe.targetExt) = BaseOf(probe.sourceType))
    => probe.result.ok /\ probe.result.ret = <<probe.data>>

\* C19: every failure inside the converter reaches the caller of convertData
\* as 'Conversion error: ' followed by the underlying failure's message.
C19_Wrapped ==
  (probe.stage = "converted" /\ ~probe.result.ok)
    => Len(probe.result.error) >= 2 /\ probe.result.error[1] = "Conversion error: "

\* C17: a GET with an extension that is not in the fragment's formats list
\* answers 415 and gives nothing to the converter; convertData is called only
\* with a (fragment type, extension) pair whose extension is in formats.
C17_FormatGate ==
  (last.op = "GET" /\ last.f # <<>> /\ last.ret # <<>> /\ last.ret[1].targetFormat # "") =>
    LET type == last.f[1].type
        sent == last.ret[1]
    IN /\ ~Includes(formats(type), sent.targetFormat) =>
            last.status = 415 /\ sent.convertData = <<>>
       /\ \A i \in 1..Len(sent.convertData) :
            Includes(formats(sent.convertData[i].sourceType), sent.convertData[i].targetExt)

\* C20: Fragment.byId(ownerId, id) never throws: it returns the reconstructed
\* Fragment when metadata is stored for (ownerId, id) and the read succeeds,
\* and null both when nothing is stored and when the read fails.
C20_ByIdNeverThrows ==
  last.op = "byId" =>
    /\ last.ok
    /\ IF last.arg[1] \/ ~DbHas(metadata, last.owner, last.id)
       THEN last.ret = <<>>
       ELSE /\ Len(last.ret) = 1
            /\ last.ret[1] = DbGet(metadata, last.owner, last.id)
            /\ last.ret[1].id = last.id
            /\ last.ret[1].ownerId = last.owner

\* the read failed for a stored fragment with content, and byId answered null
C20_Witness ==
  /\ last.op = "byId"
  /\ last.arg[1]
  /\ DbHas(metadata, last.owner, last.id)
  /\ DbGet(metadata, last.owner, last.id).size = MaxLen
  /\ last.ok
  /\ last.ret = <<>>

\* C21: listing a fragment's versions returns exactly the versions created for
\* that fragment under that owner, none missing and none of another fragment
\* (also for ids 'a' and 'a_vb'): as records ordered by versionNum descending
\* with expand, as the same set of ids without.
C21_Listing ==
  last.op = "getVersions" =>
    LET own == VersionsOf(versionMetadata, last.owner, last.id)
        list == last.ret[1]
    IN /\ last.ok
       /\ Len(list) = Cardinality(own)
       /\ IF last.arg[1]
          THEN /\ {list[i] : i \in 1..Len(list)} = {e.val : e \in own}
               /\ \A i \in 1..Len(list) : \A j \in 1..Len(list) :
                    i < j => list[i].versionNum > list[j].versionNum
          ELSE {list[i] : i \in 1..Len(list)} = {e.key : e \in own}

\* C22: a fragment's type never changes after creation: a PUT whose
\* Content-Type differs from the stored type is answered 400 'Content-Type
\* cannot be changed after fragment is created' and leaves content, metadata
\* and versions unchanged, and no step changes the type of a stored fragment.
C22_TypeFixed ==
  [][/\ \A s \in Slots :
          (DbHas(metadata, s[1], s[2]) /\ DbHas(metadata', s[1], s[2])) =>
            DbGet(metadata', s[1], s[2]).type = DbGet(metadata, s[1], s[2]).type
     /\ (Wrote /\ last'.op = "PUT" /\ DbHas(metadata, last'.owner, last'.id)
           /\ last'.arg[1] # DbGet(metadata, last'.owner, last'.id).type) =>
          /\ last'.status = 400
          /\ last'.error = "Content-Type cannot be changed after fragment is created"
          /\ metadata' = metadata
          /\ data' = data
          /\ versionMetadata' = versionMetadata
          /\ versionData' = versionData]_vars

\* a PUT with another Content-Type was refused for a fragment that holds
\* content and a version
C22_Witness ==
  /\ last.op = "PUT"
  /\ last.status = 400
  /\ DbHas(data, last.owner, last.id)
  /\ Len(DbGet(data, last.owner, last.id)) = MaxLen
  /\ VersionsOf(versionMetadata, last.owner, last.id) # {}
  /\ last.arg[1] # DbGet(metadata, last.owner, last.id).type

\* C23: when version creation fails during a PUT the update is aborted: the
\* response is 500 and the stored content and metadata are as before the PUT.
C23_PutAborts ==
  [][(/\ Wrote
      /\ last'.op = "PUT"
      /\ last'.arg[3].writeFragmentVersion
      /\ DbHas(metadata, last'.owner, last'.id)
      /\ DbGet(metadata, last'.owner, last'.id).type = last'.arg[1]) =>
        /\ last'.status = 500
        /\ metadata' = metadata
        /\ data' = data]_vars

\* C25: setData writes the content, then updates size and updated, then
\* persists the metadata, and a failing step aborts the rest: when the content
\* write fails, size and updated keep their old values and no metadata is
\* persisted; when the metadata persist fails, the error reaches the caller
\* with the content already overwritten and not rolled back.
C25_SetDataSteps ==
  [][(Wrote /\ last'.op = "setData") =>
       LET o == last'.owner
           id == last'.id
           buf == last'.arg[1]
           F == last'.arg[2]
           old == DbGet(metadata, o, id)
           f == last'.f[1]
       IN /\ F.writeFragmentData =>
               /\ ~last'.ok
               /\ f.size = old.size
               /\ f.updated = old.updated
               /\ data' = data
               /\ metadata' = metadata
          /\ (~F.writeFragmentData /\ F.writeFragment) =>
               /\ ~last'.ok
               /\ DbGet(data', o, id) = buf
               /\ f.size = Len(buf)
               /\ metadata' = metadata
          /\ (~F.writeFragmentData /\ ~F.writeFragment) =>
               /\ last'.ok
               /\ DbGet(data', o, id) = buf
               /\ DbGet(metadata', o, id) = [old EXCEPT !.size = Len(buf), !.updated = now]]_vars

\* a content write failed on a fragment whose new content differs in length
\* and whose clock has moved on
C25_Witness ==
  /\ last.op = "setData"
  /\ last.arg[2].writeFragmentData
  /\ ~last.ok
  /\ Len(last.arg[1]) # DbGet(metadata, last.owner, last.id).size
  /\ now # DbGet(metadata, last.owner, last.id).updated

\* a metadata persist failed after the content was overwritten with content
\* of another length
C25_WitnessPersist ==
  /\ last.op = "setData"
  /\ last.arg[2].writeFragment
  /\ ~last.arg[2].writeFragmentData
  /\ ~last.ok
  /\ DbGet(data, last.owner, last.id) = last.arg[1]
  /\ Len(last.arg[1]) # DbGet(metadata, last.owner, last.id).size

C26_WitnessRead ==
  /\ last.op = "createVersion"
  /\ last.arg[3].readFragmentData
  /\ ~last.arg[2]
  /\ DbHas(data, last.owner, last.id)
  /\ ~last.ok

\* C27: listing a fragment's versions answers an empty sequence, never null
\* and never an error, both when the fragment has no versions and when the
\* underlying listing fails, in the memory adapter and in the AWS adapter
\* alike, and Fragment.getVersions passes it on.
C27_ListingNeverFails ==
  last.op = "getVersions" =>
    /\ last.ok
    /\ last.ret # <<>>
    /\ (last.arg[3] \/ VersionsOf(versionMetadata, last.owner, last.id) = {}) =>
         last.ret = << <<>> >>

\* what a store holds under a key: <<the value>>, or <<>> when it holds nothing
Held(db, ownerId, key) == IF DbHas(db, ownerId, key) THEN <<DbGet(db, ownerId, key)>> ELSE <<>>

\* C28: createVersion never writes to a version id that already exists: with
\* versions 1..k stored, a successful createVersion stores its record under
\* k + 1 and leaves versions 1..k as they were, also when the latest-version
\* lookup fails.
C28_NoOverwrite ==
  [][(Wrote /\ last'.op = "createVersion" /\ last'.ok) =>
       LET o == last'.owner
           id == last'.id
           k == Cardinality(VersionsOf(versionMetadata, o, id))
       IN /\ ~DbHas(versionMetadata, o, last'.ret[1].id)
          /\ ~DbHas(versionData, o, last'.ret[1].id)
          /\ last'.ret[1].versionNum = k + 1
          /\ \A n \in 1..k :
               /\ Held(versionMetadata', o, toVersionId(id, n))
                    = Held(versionMetadata, o, toVersionId(id, n))
               /\ Held(versionData', o, toVersionId(id, n))
                    = Held(versionData, o, toVersionId(id, n))]_vars

\* the callers whose update has gone past the latest-version lookup
LookedUp(w) ==
  probe.call[w].pc \in {"getData", "writeFragmentVersion", "writeFragmentVersionData",
                        "setData", "updated"}

\* C24: two updates of one fragment (createVersion, then setData) that both
\* read the same latest version number write the same version id, so that
\* after both have finished one version record fewer exists than updates were
\* performed and it holds the snapshot of one of them; a lookup never answers
\* less than the versions stored when the update began, so the loss comes from
\* the interleaving alone.
C24_LostVersion ==
  LET c == probe.call
  IN /\ \A w \in Callers : LookedUp(w) => c[w].n >= c[w].began
     /\ (c[1].pc = "updated" /\ c[2].pc = "updated" /\ c[1].n = c[2].n) =>
          /\ c[1].version.id = c[2].version.id
          /\ Cardinality(VersionsOf(versionMetadata, "A", IdA)) = c[1].n + 1
          /\ DbGet(versionMetadata, "A", c[1].version.id) \in {c[1].version, c[2].version}
          /\ DbGet(versionData, "A", c[1].version.id) \in {c[1].snap, c[2].snap}

\* the lost-version state: both updates finished, both had read latest
\* version 0 and the same content, they wrote different new contents, and one
\* version record exists for the two updates
C24_Witness ==
  LET c == probe.call
  IN /\ c[1].pc = "updated"
     /\ c[2].pc = "updated"
     /\ c[1].n = 0
     /\ c[2].n = 0
     /\ c[1].snap = c[2].snap
     /\ c[1].buf # c[2].buf
     /\ c[1].buf # c[1].snap
     /\ c[2].buf # c[2].snap
     /\ Cardinality(VersionsOf(versionMetadata, "A", IdA)) = 1

\* C29: whenever a fragment's metadata is visible through byId its content is
\* readable through getData with the recorded length, and a GET answered
\* while a POST is between save() and setData() does not see metadata
\* without content.
C29_MetadataHasContent ==
  /\ byId(Stores, "A", IdA) # <<>> =>
       LET f == byId(Stores, "A", IdA)[1]
       IN /\ getData(Stores, f).ok
          /\ Len(getData(Stores, f).ret[1]) = f.size
  /\ (last.op = "GET" /\ last.f # <<>>) => last.status = 200

\* C30: across save, setData, createVersion and restoreVersion a fragment's
\* id, ownerId and created never change, and updated never moves backwards:
\* it is refreshed on every save and every setData and is never earlier than
\* created.
C30_Timestamps ==
  [][/\ \A s \in Slots :
          (DbHas(metadata, s[1], s[2]) /\ DbHas(metadata', s[1], s[2])) =>
            LET m == DbGet(metadata, s[1], s[2])
                n == DbGet(metadata', s[1], s[2])
            IN /\ n.id = m.id
               /\ n.ownerId = m.ownerId
               /\ n.created = m.created
               /\ n.updated >= m.updated
               /\ n.updated >= n.created
     /\ (Wrote /\ last'.op \in {"save", "setData"}) =>
          /\ DbGet(metadata', last'.owner, last'.id).updated = now
          /\ last'.f[1].updated = now
     /\ (Wrote /\ last'.op = "RESTORE" /\ last'.ok) =>
          DbGet(metadata', last'.owner, last'.id).updated = now
     /\ (Wrote /\ last'.op = "createVersion") => metadata' = metadata]_vars

\* a fragment created at time 0 was restored to a version at a later time
C30_Witness ==
  /\ last.op = "RESTORE"
  /\ last.ok
  /\ DbGet(metadata, last.owner, last.id).created = 0
  /\ DbGet(metadata, last.owner, last.id).updated = MaxClock

====
